---------------------------- MODULE Spec2Model ----------------------------
(***************************************************************************)
(* Sales Tax Nexus Tracker: the nexus evaluation engine (NexusEngine) and   *)
(* the data it evaluates (STATE_NEXUS_DATA).                                *)
(*                                                                         *)
(* Numbers.  A JavaScript number is kept as an exact fraction <<n, d>> in   *)
(* lowest terms with d > 0, so 95000 / 100000 * 100 is 95 and a revenue     *)
(* scaled by 1.1 keeps its fractional part.  Dollar amounts and transaction *)
(* counts are the source's own magnitudes (100000, 200), not rescaled.      *)
(*                                                                         *)
(* Other JavaScript values that share a field with numbers are tuples of a  *)
(* different length: null is <<>>, a boolean b is <<b>>, a string s that    *)
(* may also be null (triggeredBy) is <<s>>.  A property that is absent      *)
(* from a JavaScript object is absent from the record's DOMAIN.             *)
(***************************************************************************)
EXTENDS Integers, Sequences, FiniteSets, TLC

VARIABLES
    stateData,      \* NexusEngine.stateData: the reference table the engine was built with
    salesByState,   \* the caller's sales map: state abbreviation -> sales record
    call,           \* the last engine call made by the caller, with its return value
    app,            \* NexusTrackerApp: its fields salesData, userInputs and evaluations
    localStorage,   \* window.localStorage: key -> stored string
    dom             \* the page: the input form, and what the last operation showed

vars == <<stateData, salesByState, call, app, localStorage, dom>>

---------------------------------------------------------------------------
(* JavaScript values *)

Null == <<>>

JsTrue == <<TRUE>>

JsFalse == <<FALSE>>

JsBool(b) == <<b>>

JsStr(s) == <<s>>

IsNum(v) == Len(v) = 2

IsBool(v) == Len(v) = 1 /\ v \in {JsTrue, JsFalse}

\* ToBoolean on the values above: null, false and 0 are falsy.
Truthy(v) ==
    CASE Len(v) = 0 -> FALSE
      [] Len(v) = 1 -> (v = JsTrue)
      [] OTHER      -> v[1] # 0

\* a || b and a && b return one of their operands.
JsOr(a, b) == IF Truthy(a) THEN a ELSE b

JsAnd(a, b) == IF Truthy(a) THEN b ELSE a

---------------------------------------------------------------------------
(* Exact arithmetic on fractions *)

Abs(n) == IF n < 0 THEN -n ELSE n

RECURSIVE GCD(_, _)
GCD(a, b) == IF b = 0 THEN a ELSE GCD(b, a % b)

Rat(n, d) ==
    LET g == GCD(Abs(n), Abs(d))
        s == IF d < 0 THEN -1 ELSE 1
    IN  <<(s * n) \div g, (s * d) \div g>>

Num(n) == <<n, 1>>

Add(a, b) == Rat(a[1] * b[2] + b[1] * a[2], a[2] * b[2])

\* The product, with common factors taken out before multiplying.
Mul(a, b) ==
    LET g == GCD(Abs(a[1]), b[2])
        h == GCD(Abs(b[1]), a[2])
    IN  Rat((a[1] \div g) * (b[1] \div h), (a[2] \div h) * (b[2] \div g))

Div(a, b) == Rat(a[1] * b[2], a[2] * b[1])

Less(a, b) == a[1] * b[2] < b[1] * a[2]

Geq(a, b) == ~Less(a, b)

Gt(a, b) == Less(b, a)

MathMax(a, b) == IF Less(a, b) THEN b ELSE a

MathMin(a, b) == IF Less(b, a) THEN b ELSE a

\* Math.round: the nearest integer, halves towards +infinity.
MathRound(a) == Num((2 * a[1] + a[2]) \div (2 * a[2]))

---------------------------------------------------------------------------
(* STATE_NEXUS_DATA, the reference table.                                  *)
(*                                                                         *)
(* The table of the source has 51 entries of four shapes.  The model keeps *)
(* four of them as they are written (Alaska and Delaware without sales     *)
(* tax, Arizona REVENUE_ONLY 100000, Arkansas EITHER 100000 / 200) and     *)
(* adds three rules of the kinds the table's header documents and the      *)
(* engine implements but no current entry uses: BOTH, TRANSACTION_ONLY,    *)
(* and a rule that counts marketplace sales (excludeMarketplaceSales:      *)
(* false).  Only the fields the engine's decisions read are kept.          *)

StateOrder == <<"AK", "AZ", "AR", "DE", "XM", "XT", "XB">>

STATE_NEXUS_DATA ==
    [abbr \in {StateOrder[i] : i \in 1..Len(StateOrder)} |->
        CASE abbr = "AK" ->
               [name |-> "Alaska", hasSalesTax |-> FALSE,
                revenueThreshold |-> Null, transactionThreshold |-> Null,
                thresholdType |-> "NONE", excludeMarketplaceSales |-> FALSE]
          [] abbr = "AZ" ->
               [name |-> "Arizona", hasSalesTax |-> TRUE,
                revenueThreshold |-> Num(100000), transactionThreshold |-> Null,
                thresholdType |-> "REVENUE_ONLY", excludeMarketplaceSales |-> TRUE]
          [] abbr = "AR" ->
               [name |-> "Arkansas", hasSalesTax |-> TRUE,
                revenueThreshold |-> Num(100000), transactionThreshold |-> Num(200),
                thresholdType |-> "EITHER", excludeMarketplaceSales |-> TRUE]
          [] abbr = "DE" ->
               [name |-> "Delaware", hasSalesTax |-> FALSE,
                revenueThreshold |-> Null, transactionThreshold |-> Null,
                thresholdType |-> "NONE", excludeMarketplaceSales |-> FALSE]
          [] abbr = "XM" ->
               [name |-> "Xmarket", hasSalesTax |-> TRUE,
                revenueThreshold |-> Num(100000), transactionThreshold |-> Num(200),
                thresholdType |-> "EITHER", excludeMarketplaceSales |-> FALSE]
          [] abbr = "XT" ->
               [name |-> "Xcount", hasSalesTax |-> TRUE,
                revenueThreshold |-> Null, transactionThreshold |-> Num(200),
                thresholdType |-> "TRANSACTION_ONLY", excludeMarketplaceSales |-> TRUE]
          [] abbr = "XB" ->
               [name |-> "Xboth", hasSalesTax |-> TRUE,
                revenueThreshold |-> Num(100000), transactionThreshold |-> Num(200),
                thresholdType |-> "BOTH", excludeMarketplaceSales |-> TRUE]]

\* A state abbreviation that is no key of the table.
UnknownKeys == <<"ZZ">>

\* Object.keys / Object.entries: the keys of an object in insertion order.
\* The table lists its keys in StateOrder; a sales map is filled in the
\* table's order too (collectFormData walks Object.keys(STATE_NEXUS_DATA)),
\* keys foreign to the table last.
ObjectKeys(obj) == SelectSeq(StateOrder \o UnknownKeys, LAMBDA k : k \in DOMAIN obj)

\* The characters of a state name, a = 1 .. z = 26, as localeCompare reads them.
Letters(name) ==
    CASE name = "Alaska"   -> <<1, 12, 1, 19, 11, 1>>
      [] name = "Arizona"  -> <<1, 18, 9, 26, 15, 14, 1>>
      [] name = "Arkansas" -> <<1, 18, 11, 1, 14, 19, 1, 19>>
      [] name = "Delaware" -> <<4, 5, 12, 1, 23, 1, 18, 5>>
      [] name = "Xmarket"  -> <<24, 13, 1, 18, 11, 5, 20>>
      [] name = "Xcount"   -> <<24, 3, 15, 21, 14, 20>>
      [] name = "Xboth"    -> <<24, 2, 15, 20, 8>>

RECURSIVE CompareLetters(_, _)
CompareLetters(a, b) ==
    IF a = <<>> /\ b = <<>> THEN 0
    ELSE IF a = <<>> THEN -1
    ELSE IF b = <<>> THEN 1
    ELSE IF Head(a) < Head(b) THEN -1
    ELSE IF Head(a) > Head(b) THEN 1
    ELSE CompareLetters(Tail(a), Tail(b))

\* a.localeCompare(b): negative, zero or positive.
LocaleCompare(a, b) == CompareLetters(Letters(a), Letters(b))

---------------------------------------------------------------------------
(* NexusEngine *)

\* revenuePercent / transactionPercent: threshold ? (value / threshold) * 100 : 0
ThresholdPercent(threshold, value) ==
    IF Truthy(threshold) THEN Mul(Div(value, threshold), Num(100)) ELSE Num(0)

\* ThresholdExceeded with > in place of >=.
ThresholdExceededStrictly(threshold, value) ==
    IF Truthy(threshold) THEN JsBool(Gt(value, threshold)) ELSE threshold

\* revenueExceeded / transactionExceeded: threshold && value >= threshold
ThresholdExceeded(threshold, value) ==
    IF Truthy(threshold) THEN JsBool(Geq(value, threshold)) ELSE threshold

\* case 'REVENUE_ONLY'
CombineRevenueOnly(revenuePercent, revenueExceeded) ==
    [percentComplete |-> revenuePercent,
     hasNexus        |-> revenueExceeded,
     triggeredBy     |-> IF Truthy(revenueExceeded) THEN JsStr("revenue") ELSE Null]

\* case 'TRANSACTION_ONLY'
CombineTransactionOnly(transactionPercent, transactionExceeded) ==
    [percentComplete |-> transactionPercent,
     hasNexus        |-> transactionExceeded,
     triggeredBy     |-> IF Truthy(transactionExceeded) THEN JsStr("transactions") ELSE Null]

\* CombineEither with && in place of || for hasNexus.
CombineEitherRequiringBoth(revenuePercent, revenueExceeded, transactionPercent, transactionExceeded) ==
    [percentComplete |-> MathMax(revenuePercent, transactionPercent),
     hasNexus        |-> JsAnd(revenueExceeded, transactionExceeded),
     triggeredBy     |->
         IF Truthy(revenueExceeded) /\ Truthy(transactionExceeded) THEN JsStr("both")
         ELSE IF Truthy(revenueExceeded) THEN JsStr("revenue")
         ELSE IF Truthy(transactionExceeded) THEN JsStr("transactions")
         ELSE Null]

\* case 'EITHER'
CombineEither(revenuePercent, revenueExceeded, transactionPercent, transactionExceeded) ==
    [percentComplete |-> MathMax(revenuePercent, transactionPercent),
     hasNexus        |-> JsOr(revenueExceeded, transactionExceeded),
     triggeredBy     |->
         IF Truthy(revenueExceeded) /\ Truthy(transactionExceeded) THEN JsStr("both")
         ELSE IF Truthy(revenueExceeded) THEN JsStr("revenue")
         ELSE IF Truthy(transactionExceeded) THEN JsStr("transactions")
         ELSE Null]

\* CombineBoth with Math.max in place of Math.min.
CombineBothTakingMax(revenuePercent, revenueExceeded, transactionPercent, transactionExceeded) ==
    LET hasNexus == JsAnd(revenueExceeded, transactionExceeded) IN
    [percentComplete |-> MathMax(revenuePercent, transactionPercent),
     hasNexus        |-> hasNexus,
     triggeredBy     |-> IF Truthy(hasNexus) THEN JsStr("both") ELSE Null]

\* CombineBoth whose triggeredBy names the one threshold that was exceeded.
CombineBothNamingOneTrigger(revenuePercent, revenueExceeded, transactionPercent, transactionExceeded) ==
    [percentComplete |-> MathMin(revenuePercent, transactionPercent),
     hasNexus        |-> JsAnd(revenueExceeded, transactionExceeded),
     triggeredBy     |->
         IF Truthy(revenueExceeded) /\ Truthy(transactionExceeded) THEN JsStr("both")
         ELSE IF Truthy(revenueExceeded) THEN JsStr("revenue")
         ELSE IF Truthy(transactionExceeded) THEN JsStr("transactions")
         ELSE Null]

\* case 'BOTH'
CombineBoth(revenuePercent, revenueExceeded, transactionPercent, transactionExceeded) ==
    LET hasNexus == JsAnd(revenueExceeded, transactionExceeded) IN
    [percentComplete |-> MathMin(revenuePercent, transactionPercent),
     hasNexus        |-> hasNexus,
     triggeredBy     |-> IF Truthy(hasNexus) THEN JsStr("both") ELSE Null]

\* CombineByType whose default case evaluates like EITHER.
CombineByTypeDefaultingToEither(thresholdType, revenuePercent, revenueExceeded, transactionPercent, transactionExceeded) ==
    CASE thresholdType = "REVENUE_ONLY" ->
           CombineRevenueOnly(revenuePercent, revenueExceeded)
      [] thresholdType = "TRANSACTION_ONLY" ->
           CombineTransactionOnly(transactionPercent, transactionExceeded)
      [] thresholdType = "BOTH" ->
           CombineBoth(revenuePercent, revenueExceeded, transactionPercent, transactionExceeded)
      [] OTHER ->
           CombineEither(revenuePercent, revenueExceeded, transactionPercent, transactionExceeded)

\* The switch on thresholdType: percentComplete, hasNexus and triggeredBy
\* from the two percentages and the two exceeded flags; the default case
\* leaves the initial values.
CombineByType(thresholdType, revenuePercent, revenueExceeded, transactionPercent, transactionExceeded) ==
    CASE thresholdType = "REVENUE_ONLY" ->
           CombineRevenueOnly(revenuePercent, revenueExceeded)
      [] thresholdType = "TRANSACTION_ONLY" ->
           CombineTransactionOnly(transactionPercent, transactionExceeded)
      [] thresholdType = "EITHER" ->
           CombineEither(revenuePercent, revenueExceeded, transactionPercent, transactionExceeded)
      [] thresholdType = "BOTH" ->
           CombineBoth(revenuePercent, revenueExceeded, transactionPercent, transactionExceeded)
      [] OTHER ->
           [percentComplete |-> Num(0), hasNexus |-> JsFalse, triggeredBy |-> Null]

\* RiskLevelOf with > in place of >= at the 90 and 70 marks.
RiskLevelOfStrictBands(hasNexus, percentComplete) ==
    IF Truthy(hasNexus) THEN "NEXUS_ESTABLISHED"
    ELSE IF Gt(percentComplete, Num(90)) THEN "NEXUS_IMMINENT"
    ELSE IF Gt(percentComplete, Num(70)) THEN "MONITORING"
    ELSE "NO_NEXUS"

\* RiskLevelOf with the labels of the 90 and 70 marks exchanged.
RiskLevelOfBandsSwapped(hasNexus, percentComplete) ==
    IF Truthy(hasNexus) THEN "NEXUS_ESTABLISHED"
    ELSE IF Geq(percentComplete, Num(90)) THEN "MONITORING"
    ELSE IF Geq(percentComplete, Num(70)) THEN "NEXUS_IMMINENT"
    ELSE "NO_NEXUS"

\* "Determine risk level based on percentage", before the clamp.
RiskLevelOf(hasNexus, percentComplete) ==
    IF Truthy(hasNexus) THEN "NEXUS_ESTABLISHED"
    ELSE IF Geq(percentComplete, Num(90)) THEN "NEXUS_IMMINENT"
    ELSE IF Geq(percentComplete, Num(70)) THEN "MONITORING"
    ELSE "NO_NEXUS"

\* _evaluateThresholds without the Math.min(percentComplete, 100) of its return.
evaluateThresholdsUnclamped(state, revenue, transactions) ==
    LET revenuePercent == ThresholdPercent(state.revenueThreshold, revenue)
        revenueExceeded == ThresholdExceeded(state.revenueThreshold, revenue)
        transactionPercent == ThresholdPercent(state.transactionThreshold, transactions)
        transactionExceeded == ThresholdExceeded(state.transactionThreshold, transactions)
        c == CombineByType(state.thresholdType, revenuePercent, revenueExceeded,
                           transactionPercent, transactionExceeded)
    IN  [hasNexus           |-> c.hasNexus,
         riskLevel          |-> RiskLevelOf(c.hasNexus, c.percentComplete),
         percentComplete    |-> c.percentComplete,
         triggeredBy        |-> c.triggeredBy,
         revenuePercent     |-> revenuePercent,
         transactionPercent |-> transactionPercent]

\* NexusEngine._evaluateThresholds(state, revenue, transactions); the
\* message text of the result is left out.
evaluateThresholds(state, revenue, transactions) ==
    LET revenuePercent == ThresholdPercent(state.revenueThreshold, revenue)
        revenueExceeded == ThresholdExceeded(state.revenueThreshold, revenue)
        transactionPercent == ThresholdPercent(state.transactionThreshold, transactions)
        transactionExceeded == ThresholdExceeded(state.transactionThreshold, transactions)
        c == CombineByType(state.thresholdType, revenuePercent, revenueExceeded,
                           transactionPercent, transactionExceeded)
    IN  [hasNexus           |-> c.hasNexus,
         riskLevel          |-> RiskLevelOf(c.hasNexus, c.percentComplete),
         percentComplete    |-> MathMin(c.percentComplete, Num(100)),
         triggeredBy        |-> c.triggeredBy,
         revenuePercent     |-> revenuePercent,
         transactionPercent |-> transactionPercent]

\* ApplicableSales with the exclusion flag ignored: marketplace sales always count.
ApplicableSalesIgnoringExclusion(state, salesData) ==
    [revenue      |-> Add(JsOr(salesData.directRevenue, Num(0)),
                          JsOr(salesData.marketplaceRevenue, Num(0))),
     transactions |-> Add(JsOr(salesData.directTransactions, Num(0)),
                          JsOr(salesData.marketplaceTransactions, Num(0)))]

\* "Calculate applicable sales based on marketplace exclusion rules".
ApplicableSales(state, salesData) ==
    LET direct == JsOr(salesData.directRevenue, Num(0))
        directTx == JsOr(salesData.directTransactions, Num(0))
    IN  IF ~state.excludeMarketplaceSales
        THEN [revenue      |-> Add(direct, JsOr(salesData.marketplaceRevenue, Num(0))),
              transactions |-> Add(directTx, JsOr(salesData.marketplaceTransactions, Num(0)))]
        ELSE [revenue |-> direct, transactions |-> directTx]

\* The result for a state without sales tax ("States without sales tax have
\* no nexus obligations"); the message and details texts are left out.
NoSalesTaxResult(stateAbbr, state) ==
    [stateAbbr |-> stateAbbr,
     stateName |-> state.name,
     status    |-> "NO_SALES_TAX",
     hasNexus  |-> JsFalse,
     riskLevel |-> "NONE"]

\* The result for a state with sales tax: the threshold evaluation spread
\* into the result, with thresholdDetails; complianceInfo is left out.
TaxedResult(stateAbbr, state, salesData) ==
    LET applicable == ApplicableSales(state, salesData)
        evaluation == evaluateThresholds(state, applicable.revenue, applicable.transactions)
    IN  [stateAbbr          |-> stateAbbr,
         stateName          |-> state.name,
         hasNexus           |-> evaluation.hasNexus,
         riskLevel          |-> evaluation.riskLevel,
         percentComplete    |-> evaluation.percentComplete,
         triggeredBy        |-> evaluation.triggeredBy,
         revenuePercent     |-> evaluation.revenuePercent,
         transactionPercent |-> evaluation.transactionPercent,
         thresholdDetails   |->
             [revenueThreshold        |-> state.revenueThreshold,
              transactionThreshold    |-> state.transactionThreshold,
              thresholdType           |-> state.thresholdType,
              applicableRevenue       |-> applicable.revenue,
              applicableTransactions  |-> applicable.transactions,
              excludeMarketplaceSales |-> state.excludeMarketplaceSales]]

\* evaluateState without the short-circuit for states without sales tax.
evaluateStateWithoutShortCircuit(sd, stateAbbr, salesData) ==
    IF stateAbbr \notin DOMAIN sd
    THEN [error |-> <<"State", stateAbbr, "not found">>, status |-> "UNKNOWN"]
    ELSE TaxedResult(stateAbbr, sd[stateAbbr], salesData)

\* evaluateState that takes a state missing from the table for a state
\* without obligations instead of reporting it.
evaluateStateSkippingUnknown(sd, stateAbbr, salesData) ==
    IF stateAbbr \notin DOMAIN sd
    THEN [stateAbbr |-> stateAbbr, status |-> "NO_SALES_TAX",
          hasNexus |-> JsFalse, riskLevel |-> "NONE"]
    ELSE IF ~sd[stateAbbr].hasSalesTax
    THEN NoSalesTaxResult(stateAbbr, sd[stateAbbr])
    ELSE TaxedResult(stateAbbr, sd[stateAbbr], salesData)

\* NexusEngine.evaluateState(stateAbbr, salesData), on the table sd.
evaluateState(sd, stateAbbr, salesData) ==
    IF stateAbbr \notin DOMAIN sd
    THEN [error |-> <<"State", stateAbbr, "not found">>, status |-> "UNKNOWN"]
    ELSE IF ~sd[stateAbbr].hasSalesTax
    THEN NoSalesTaxResult(stateAbbr, sd[stateAbbr])
    ELSE TaxedResult(stateAbbr, sd[stateAbbr], salesData)

ZeroSales ==
    [directRevenue |-> Num(0), directTransactions |-> Num(0),
     marketplaceRevenue |-> Num(0), marketplaceTransactions |-> Num(0)]

\* riskOrder[level] of the sort comparator.
riskOrder(riskLevel) ==
    CASE riskLevel = "NEXUS_ESTABLISHED" -> 1
      [] riskLevel = "NEXUS_IMMINENT"    -> 2
      [] riskLevel = "MONITORING"        -> 3
      [] riskLevel = "NO_NEXUS"          -> 4
      [] riskLevel = "NO_SALES_TAX"      -> 5
      [] riskLevel = "NONE"              -> 6

\* The comparator without its tie-break on the state name.
CompareResultsByRiskOnly(a, b) ==
    riskOrder(a.riskLevel) - riskOrder(b.riskLevel)

\* The comparator handed to results.sort: by risk level, then by state name.
CompareResults(a, b) ==
    IF riskOrder(a.riskLevel) # riskOrder(b.riskLevel)
    THEN riskOrder(a.riskLevel) - riskOrder(b.riskLevel)
    ELSE LocaleCompare(a.stateName, b.stateName)

\* Array.prototype.sort(comparator): a stable sort, here by insertion.
RECURSIVE InsertSorted(_, _)
InsertSorted(sorted, x) ==
    IF sorted = <<>> THEN <<x>>
    ELSE LET last == sorted[Len(sorted)] IN
         IF CompareResults(last, x) > 0
         THEN Append(InsertSorted(SubSeq(sorted, 1, Len(sorted) - 1), x), last)
         ELSE Append(sorted, x)

RECURSIVE ArraySort(_)
ArraySort(results) ==
    IF results = <<>> THEN <<>>
    ELSE InsertSorted(ArraySort(SubSeq(results, 1, Len(results) - 1)),
                      results[Len(results)])

\* First loop of evaluateAllStates: the entries of the sales map with revenue.
RECURSIVE EvaluateEntries(_, _, _)
EvaluateEntries(sd, sales, keys) ==
    IF keys = <<>> THEN <<>>
    ELSE LET stateAbbr == Head(keys)
             salesData == sales[stateAbbr]
             rest == EvaluateEntries(sd, sales, Tail(keys))
         IN  IF Gt(salesData.directRevenue, Num(0)) \/ Gt(salesData.marketplaceRevenue, Num(0))
             THEN <<evaluateState(sd, stateAbbr, salesData)>> \o rest
             ELSE rest

\* Second loop: "Add states with no sales for completeness".
RECURSIVE EvaluateMissing(_, _, _)
EvaluateMissing(sd, sales, keys) ==
    IF keys = <<>> THEN <<>>
    ELSE LET stateAbbr == Head(keys)
             rest == EvaluateMissing(sd, sales, Tail(keys))
         IN  IF stateAbbr \notin DOMAIN sales
             THEN <<evaluateState(sd, stateAbbr, ZeroSales)>> \o rest
             ELSE rest

\* The results evaluateAllStates has pushed when it comes to sort them.
PushedResults(sd, sales) ==
    EvaluateEntries(sd, sales, ObjectKeys(sales)) \o EvaluateMissing(sd, sales, ObjectKeys(sd))

\* NexusEngine.evaluateAllStates(salesByState), on the table sd, for a sales
\* map keyed by states of the table.
evaluateAllStates(sd, sales) == ArraySort(PushedResults(sd, sales))

\* A list holds the error outcome of an unknown state.
HasErrorOutcome(results) == \E i \in 1..Len(results) : "error" \in DOMAIN results[i]

\* What results.sort can leave behind.  An error outcome has no riskLevel, so
\* the comparator returns NaN (undefined - 4) for it against any other result:
\* the comparator is not consistent and the order of the sorted list is
\* implementation-defined, any arrangement of the pushed results.  (Two error
\* outcomes compared with each other would throw at stateName.localeCompare;
\* the model has one unknown key.)
SortOutcomes(results) ==
    IF HasErrorOutcome(results)
    THEN {[i \in 1..Len(results) |-> results[f[i]]] : f \in Permutations(1..Len(results))}
    ELSE {ArraySort(results)}

\* SummaryStep with the push to statesRequiringAction missing from the
\* NEXUS_IMMINENT case.
SummaryStepWithoutImminentPush(summary, evaluation) ==
    IF "riskLevel" \notin DOMAIN evaluation THEN summary
    ELSE CASE evaluation.riskLevel = "NEXUS_ESTABLISHED" ->
                [summary EXCEPT !.nexusEstablished = @ + 1,
                                !.statesRequiringAction = Append(@, evaluation.stateAbbr)]
           [] evaluation.riskLevel = "NEXUS_IMMINENT" ->
                [summary EXCEPT !.nexusImminent = @ + 1]
           [] evaluation.riskLevel = "MONITORING" ->
                [summary EXCEPT !.monitoring = @ + 1]
           [] evaluation.riskLevel = "NO_NEXUS" ->
                [summary EXCEPT !.noNexus = @ + 1]
           [] evaluation.riskLevel \in {"NO_SALES_TAX", "NONE"} ->
                [summary EXCEPT !.noSalesTax = @ + 1]
           [] OTHER -> summary

\* One step of the forEach of getSummary.
SummaryStep(summary, evaluation) ==
    IF "riskLevel" \notin DOMAIN evaluation THEN summary
    ELSE CASE evaluation.riskLevel = "NEXUS_ESTABLISHED" ->
                [summary EXCEPT !.nexusEstablished = @ + 1,
                                !.statesRequiringAction = Append(@, evaluation.stateAbbr)]
           [] evaluation.riskLevel = "NEXUS_IMMINENT" ->
                [summary EXCEPT !.nexusImminent = @ + 1,
                                !.statesRequiringAction = Append(@, evaluation.stateAbbr)]
           [] evaluation.riskLevel = "MONITORING" ->
                [summary EXCEPT !.monitoring = @ + 1]
           [] evaluation.riskLevel = "NO_NEXUS" ->
                [summary EXCEPT !.noNexus = @ + 1]
           [] evaluation.riskLevel \in {"NO_SALES_TAX", "NONE"} ->
                [summary EXCEPT !.noSalesTax = @ + 1]
           [] OTHER -> summary

RECURSIVE SummaryFold(_, _)
SummaryFold(summary, evaluations) ==
    IF evaluations = <<>> THEN summary
    ELSE SummaryFold(SummaryStep(summary, Head(evaluations)), Tail(evaluations))

\* NexusEngine.getSummary(evaluations)
getSummary(evaluations) ==
    SummaryFold([totalStates           |-> Len(evaluations),
                 nexusEstablished      |-> 0,
                 nexusImminent         |-> 0,
                 monitoring            |-> 0,
                 noNexus               |-> 0,
                 noSalesTax            |-> 0,
                 statesRequiringAction |-> <<>>],
                evaluations)

\* ProjectSales with 1 - increasePercent / 100 as the factor.
ProjectSalesShrinking(sales, increasePercent) ==
    LET factor == Add(Num(1), Div(Rat(-increasePercent[1], increasePercent[2]), Num(100))) IN
    [state \in DOMAIN sales |->
        [directRevenue           |-> Mul(sales[state].directRevenue, factor),
         directTransactions      |-> MathRound(Mul(sales[state].directTransactions, factor)),
         marketplaceRevenue      |-> Mul(sales[state].marketplaceRevenue, factor),
         marketplaceTransactions |-> MathRound(Mul(sales[state].marketplaceTransactions, factor))]]

\* ProjectSales with the magnitude of increasePercent in the factor.
ProjectSalesByMagnitude(sales, increasePercent) ==
    LET factor == Add(Num(1), Div(Rat(Abs(increasePercent[1]), increasePercent[2]), Num(100))) IN
    [state \in DOMAIN sales |->
        [directRevenue           |-> Mul(sales[state].directRevenue, factor),
         directTransactions      |-> MathRound(Mul(sales[state].directTransactions, factor)),
         marketplaceRevenue      |-> Mul(sales[state].marketplaceRevenue, factor),
         marketplaceTransactions |-> MathRound(Mul(sales[state].marketplaceTransactions, factor))]]

\* ProjectSales with Math.round on the revenue figures as well.
ProjectSalesRoundingRevenue(sales, increasePercent) ==
    LET factor == Add(Num(1), Div(increasePercent, Num(100))) IN
    [state \in DOMAIN sales |->
        [directRevenue           |-> MathRound(Mul(sales[state].directRevenue, factor)),
         directTransactions      |-> MathRound(Mul(sales[state].directTransactions, factor)),
         marketplaceRevenue      |-> MathRound(Mul(sales[state].marketplaceRevenue, factor)),
         marketplaceTransactions |-> MathRound(Mul(sales[state].marketplaceTransactions, factor))]]

\* "Create projected sales data": every figure times (1 + increasePercent / 100),
\* the transaction counts through Math.round.
ProjectSales(sales, increasePercent) ==
    LET factor == Add(Num(1), Div(increasePercent, Num(100))) IN
    [state \in DOMAIN sales |->
        [directRevenue           |-> Mul(sales[state].directRevenue, factor),
         directTransactions      |-> MathRound(Mul(sales[state].directTransactions, factor)),
         marketplaceRevenue      |-> Mul(sales[state].marketplaceRevenue, factor),
         marketplaceTransactions |-> MathRound(Mul(sales[state].marketplaceTransactions, factor))]]

\* c.stateAbbr === proj.stateAbbr; a missing stateAbbr is undefined on both sides.
SameAbbr(c, proj) ==
    IF "stateAbbr" \in DOMAIN c /\ "stateAbbr" \in DOMAIN proj
    THEN c.stateAbbr = proj.stateAbbr
    ELSE "stateAbbr" \notin DOMAIN c /\ "stateAbbr" \notin DOMAIN proj

\* currentEvaluations.find(c => c.stateAbbr === proj.stateAbbr): the index, 0 for undefined.
FindCurrent(currentEvaluations, proj) ==
    LET hits == {i \in 1..Len(currentEvaluations) : SameAbbr(currentEvaluations[i], proj)}
    IN  IF hits = {} THEN 0 ELSE CHOOSE i \in hits : \A j \in hits : i <= j

\* obj.hasNexus read as a condition: an absent property is undefined, falsy.
HasNexusTruthy(evaluation) ==
    "hasNexus" \in DOMAIN evaluation /\ Truthy(evaluation.hasNexus)

\* IsNewNexus without the test of the current result.
IsNewNexusIgnoringCurrent(curr, proj) == HasNexusTruthy(proj)

\* The filter of newNexusStates: !curr.hasNexus && proj.hasNexus
IsNewNexus(curr, proj) == ~HasNexusTruthy(curr) /\ HasNexusTruthy(proj)

\* The filter and map that build newNexusStates; null stands for the undefined
\* stateAbbr of an error outcome.
RECURSIVE NewNexus(_, _)
NewNexus(currentEvaluations, projected) ==
    IF projected = <<>> THEN <<>>
    ELSE LET proj == Head(projected)
             curr == currentEvaluations[FindCurrent(currentEvaluations, proj)]
             rest == NewNexus(currentEvaluations, Tail(projected))
         IN  IF IsNewNexus(curr, proj)
             THEN <<IF "stateAbbr" \in DOMAIN proj THEN proj.stateAbbr ELSE "undefined">> \o rest
             ELSE rest

\* NexusEngine.modelScenario(salesByState, increasePercent), on the table sd.
\* curr.hasNexus on an undefined curr throws a TypeError.
modelScenario(sd, sales, increasePercent) ==
    LET currentEvaluations == evaluateAllStates(sd, sales)
        projectedSales == ProjectSales(sales, increasePercent)
        projectedEvaluations == evaluateAllStates(sd, projectedSales)
    IN  IF \E i \in 1..Len(projectedEvaluations) :
               FindCurrent(currentEvaluations, projectedEvaluations[i]) = 0
        THEN [threw |-> "TypeError"]
        ELSE [increasePercent |-> increasePercent,
              current   |-> [evaluations |-> currentEvaluations,
                             summary |-> getSummary(currentEvaluations)],
              projected |-> [evaluations |-> projectedEvaluations,
                             summary |-> getSummary(projectedEvaluations)],
              newNexusStates |-> NewNexus(currentEvaluations, projectedEvaluations)]

---------------------------------------------------------------------------
(* Inputs *)

\* Direct revenue runs over 0, 5000, ..., MaxRevenueSteps * 5000 (past the
\* 100000 threshold), direct transactions over 0, 50, ..., MaxTransactionSteps * 50
\* (past the 200 threshold).
MaxRevenueSteps == 22

MaxTransactionSteps == 5

MaxMarketplaceSteps == 2

MaxMarketplaceTxSteps == 1

\* A sales map holds records for at most MaxKeys states.
MaxKeys == 2

Revenues == {Num(k * 5000) : k \in 0..MaxRevenueSteps}

Transactions == {Num(k * 50) : k \in 0..MaxTransactionSteps}

MarketplaceRevenues == {Num(k * 5000) : k \in 0..MaxMarketplaceSteps} \cup {Num(500000)}

MarketplaceTransactions == {Num(k * 50) : k \in 0..MaxMarketplaceTxSteps}

\* The sales records a single evaluateState call is tried on.
SalesRecords ==
    [directRevenue : Revenues, directTransactions : Transactions,
     marketplaceRevenue : MarketplaceRevenues,
     marketplaceTransactions : MarketplaceTransactions]

Sales(dr, dt, mr, mt) ==
    [directRevenue |-> Num(dr), directTransactions |-> Num(dt),
     marketplaceRevenue |-> Num(mr), marketplaceTransactions |-> Num(mt)]

\* The records sales maps are built from.  collectFormData keeps a record only
\* when one of its four figures is positive: transactions without revenue,
\* 70 %, 95 % and 100 % of the 100000 threshold, one dollar and one
\* transaction short of the thresholds, marketplace sales only.
MapRecords ==
    {Sales(0, 250, 0, 0), Sales(70000, 100, 0, 0), Sales(95000, 182, 0, 0),
     Sales(99999, 199, 0, 0), Sales(100000, 200, 0, 0), Sales(0, 0, 100000, 200)}

StateAbbrs == {StateOrder[i] : i \in 1..Len(StateOrder)}

\* Sales maps keyed by states of the table.
SalesMaps ==
    UNION {[keys -> MapRecords] : keys \in {K \in SUBSET StateAbbrs : Cardinality(K) <= MaxKeys}}

\* Growth percentages typed into the scenario form: contraction, also past
\* -100 %, no change, and growth.
GrowthPercents == {Num(-150), Num(-100), Num(-50), Num(0), Num(10), Num(100)}

NoCall == [op |-> "none"]

---------------------------------------------------------------------------
(* The engine as its caller sees it.  The engine keeps nothing between   *)
(* calls (its only field, stateData, is never written), so a behaviour is *)
(* one call made on the caller's inputs, or evaluateAllStates followed by *)
(* getSummary on the list it returned.                                    *)

\* The engine used on its own: no application is loaded.
NoApp == [salesData |-> <<>>, userInputs |-> <<>>, evaluations |-> <<>>]

NoDom == [loaded |-> FALSE]

NoPage == app = NoApp /\ localStorage = <<>> /\ dom = NoDom

\* new NexusEngine(STATE_NEXUS_DATA), and a sales map in the caller's hands.
Init ==
    /\ stateData = STATE_NEXUS_DATA
    /\ salesByState \in SalesMaps
    /\ call = NoCall
    /\ NoPage

\* engine.evaluateState(stateAbbr, salesData)
EvaluateState(stateAbbr, salesData) ==
    /\ call = NoCall
    /\ call' = [op        |-> "evaluateState",
                stateAbbr |-> stateAbbr,
                salesData |-> salesData,
                ret       |-> evaluateState(stateData, stateAbbr, salesData)]
    /\ UNCHANGED <<stateData, salesByState, app, localStorage, dom>>

\* engine.evaluateState called a second time with the arguments of the first
\* call; the record keeps both return values.
EvaluateStateAgain ==
    /\ call.op = "evaluateState"
    /\ "again" \notin DOMAIN call
    /\ call' = [op        |-> "evaluateState",
                stateAbbr |-> call.stateAbbr,
                salesData |-> call.salesData,
                ret       |-> call.ret,
                again     |-> evaluateState(stateData, call.stateAbbr, call.salesData)]
    /\ UNCHANGED <<stateData, salesByState, app, localStorage, dom>>

\* engine.evaluateAllStates(salesByState)
EvaluateAllStates ==
    /\ call = NoCall
    /\ \E ret \in SortOutcomes(PushedResults(stateData, salesByState)) :
          call' = [op |-> "evaluateAllStates", ret |-> ret]
    /\ UNCHANGED <<stateData, salesByState, app, localStorage, dom>>

\* A list back to front.
Reverse(seq) == [i \in 1..Len(seq) |-> seq[Len(seq) + 1 - i]]

\* engine.getSummary(evaluations).  getSummary takes any list of results: it is
\* called on a slice of the list evaluateAllStates returned, as it is or back
\* to front.
GetSummary(from, to, backToFront) ==
    /\ call.op = "evaluateAllStates"
    /\ from \in 1..(Len(call.ret) + 1)
    /\ to \in (from - 1)..Len(call.ret)
    /\ LET slice == SubSeq(call.ret, from, to)
           evaluations == IF backToFront THEN Reverse(slice) ELSE slice
       IN  call' = [op          |-> "getSummary",
                    evaluations |-> evaluations,
                    ret         |-> getSummary(evaluations)]
    /\ UNCHANGED <<stateData, salesByState, app, localStorage, dom>>

\* modelScenario that writes the scaled figures into the caller's map.
ModelScenarioScalingInPlace(increasePercent) ==
    /\ call = NoCall
    /\ call' = [op              |-> "modelScenario",
                increasePercent |-> increasePercent,
                projectedSales  |-> ProjectSales(salesByState, increasePercent),
                ret             |-> modelScenario(stateData, salesByState, increasePercent)]
    /\ salesByState' = ProjectSales(salesByState, increasePercent)
    /\ UNCHANGED <<stateData, app, localStorage, dom>>

\* engine.modelScenario(salesByState, increasePercent); projectedSales is the
\* local map the call builds and hands to evaluateAllStates.
ModelScenario(increasePercent) ==
    /\ call = NoCall
    /\ call' = [op              |-> "modelScenario",
                increasePercent |-> increasePercent,
                projectedSales  |-> ProjectSales(salesByState, increasePercent),
                ret             |-> modelScenario(stateData, salesByState, increasePercent)]
    /\ UNCHANGED <<stateData, salesByState, app, localStorage, dom>>

\* The record evaluateAllStates would hand to evaluateState for a state.
SalesOf(stateAbbr) ==
    IF stateAbbr \in DOMAIN salesByState THEN salesByState[stateAbbr] ELSE ZeroSales

MaxResults == Len(StateOrder) + Len(UnknownKeys)

Next ==
    \/ \E stateAbbr \in StateAbbrs : EvaluateState(stateAbbr, SalesOf(stateAbbr))
    \/ EvaluateStateAgain
    \/ EvaluateAllStates
    \/ \E from \in 1..(MaxResults + 1), to \in 0..MaxResults, backToFront \in BOOLEAN :
          GetSummary(from, to, backToFront)
    \/ \E increasePercent \in GrowthPercents : ModelScenario(increasePercent)

Spec == Init /\ [][Next]_vars

\* A single evaluateState call, tried on every record of SalesRecords and on
\* every state of the table and one that is not in it.
InitEvaluate ==
    /\ stateData = STATE_NEXUS_DATA
    /\ salesByState = <<>>
    /\ call = NoCall
    /\ NoPage

NextEvaluate ==
    \E stateAbbr \in StateAbbrs \cup {UnknownKeys[i] : i \in 1..Len(UnknownKeys)} :
        \E salesData \in SalesRecords : EvaluateState(stateAbbr, salesData)

SpecEvaluate == InitEvaluate /\ [][NextEvaluate]_vars

\* evaluateAllStates on sales maps that hold a key foreign to the table, next
\* to at most one state of the table; the table is the four entries kept from
\* the source.
ShippedAbbrs == {"AK", "AZ", "AR", "DE"}

ForeignSalesMaps ==
    {sales \in UNION {[keys -> MapRecords] :
                        keys \in {K \in SUBSET (ShippedAbbrs \cup {UnknownKeys[1]}) :
                                    Cardinality(K) <= MaxKeys}} :
        UnknownKeys[1] \in DOMAIN sales}

InitForeign ==
    /\ stateData = [abbr \in ShippedAbbrs |-> STATE_NEXUS_DATA[abbr]]
    /\ salesByState \in ForeignSalesMaps
    /\ call = NoCall
    /\ NoPage

NextForeign == EvaluateAllStates

SpecForeign == InitForeign /\ [][NextForeign]_vars

\* evaluateAllStates on such a sales map, then getSummary on the whole list it
\* returned, as modelScenario and the page do.
NextForeignSummary ==
    \/ EvaluateAllStates
    \/ GetSummary(1, Len(call.ret), FALSE)

SpecForeignSummary == InitForeign /\ [][NextForeignSummary]_vars

\* evaluateState on tables the constructor accepts but the source does not
\* ship: Arkansas' rule with every threshold type (NONE and a type the engine
\* does not know included) and thresholds that are null, 0 or positive.
RuleTypes == {"REVENUE_ONLY", "TRANSACTION_ONLY", "EITHER", "BOTH", "NONE", "QUARTERLY"}

RuleRevenueThresholds == {Null, Num(0), Num(100000)}

RuleTransactionThresholds == {Null, Num(0), Num(200)}

RuleTables ==
    {[STATE_NEXUS_DATA EXCEPT !["AR"] =
          [name |-> "Arkansas", hasSalesTax |-> TRUE,
           revenueThreshold |-> revenueThreshold,
           transactionThreshold |-> transactionThreshold,
           thresholdType |-> thresholdType, excludeMarketplaceSales |-> TRUE]] :
        thresholdType \in RuleTypes,
        revenueThreshold \in RuleRevenueThresholds,
        transactionThreshold \in RuleTransactionThresholds}

RuleSalesRecords ==
    {ZeroSales, Sales(5000, 50, 0, 0), Sales(95000, 150, 0, 0), Sales(100000, 200, 0, 0),
     Sales(0, 250, 0, 0), Sales(150000, 0, 0, 0)}

InitRules ==
    /\ stateData \in RuleTables
    /\ salesByState = <<>>
    /\ call = NoCall
    /\ NoPage

NextRules == \E salesData \in RuleSalesRecords : EvaluateState("AR", salesData)

SpecRules == InitRules /\ [][NextRules]_vars

---------------------------------------------------------------------------
(* NexusTrackerApp, the page controller.  The table it hands to the engine  *)
(* is the four entries kept from the source.                                *)

SalesDataKey == "nexus-tracker-sales-data"

UserInputsKey == "nexus-tracker-user-inputs"

\* JSON.stringify and JSON.parse on the objects the app stores (plain objects
\* of finite numbers and strings): the text names the value, parsing reads it
\* back.
JSONstringify(value) == [json |-> value]

JSONparse(text) == text.json

\* parseFloat and parseInt on the value of a number input.
ParseFloat(value) == value

ParseInt(value) == Num(value[1] \div value[2])

\* number.toFixed(2), read back as a number: two decimals, halves up.
ToFixed2(number) == Rat(MathRound(Mul(number, Num(100)))[1], 100)

\* renderStateInputs: one group of four inputs per state of the table, filled
\* from this.salesData[abbr] or with zeros.
renderStateInputs(sd, salesData) ==
    [abbr \in DOMAIN sd |-> IF abbr \in DOMAIN salesData THEN salesData[abbr] ELSE ZeroSales]

\* collectFormData, the sales part: a record for every state of the table with
\* one of its four inputs above zero.
CollectSalesData(sd, form) ==
    LET read(abbr) ==
            [directRevenue           |-> ParseFloat(form[abbr].directRevenue),
             directTransactions      |-> ParseInt(form[abbr].directTransactions),
             marketplaceRevenue      |-> ParseFloat(form[abbr].marketplaceRevenue),
             marketplaceTransactions |-> ParseInt(form[abbr].marketplaceTransactions)]
        entered(abbr) ==
            \/ Gt(read(abbr).directRevenue, Num(0))
            \/ Gt(read(abbr).directTransactions, Num(0))
            \/ Gt(read(abbr).marketplaceRevenue, Num(0))
            \/ Gt(read(abbr).marketplaceTransactions, Num(0))
    IN  [abbr \in {a \in DOMAIN sd : entered(a)} |-> read(abbr)]

\* collectFormData, the user inputs: the company name typed, or '', and the
\* measurement period selected, 'rolling_12' unless changed.
CollectUserInputs(companyName) ==
    [companyName |-> companyName, measurementPeriod |-> "rolling_12"]

\* What an operation showed: the text of its alert ("" for none) and whether
\* it ended in an exception, besides what is particular to the operation.
Shown(op, alert) == [op |-> op, alert |-> alert, threw |-> FALSE]

\* new NexusTrackerApp() on a fresh page: the constructor's fields, then
\* init(): loadFromStorage, renderStateInputs, calculateAndRender.
Constructed(sd, storage) ==
    LET salesData == IF SalesDataKey \in DOMAIN storage
                     THEN JSONparse(storage[SalesDataKey]) ELSE <<>>
        userInputs == IF UserInputsKey \in DOMAIN storage
                      THEN JSONparse(storage[UserInputsKey]) ELSE <<>>
    IN  [app |-> [salesData   |-> salesData,
                  userInputs  |-> userInputs,
                  evaluations |-> evaluateAllStates(sd, salesData)],
         dom |-> [loaded      |-> TRUE,
                  form        |-> renderStateInputs(sd, salesData),
                  companyName |-> IF "companyName" \in DOMAIN userInputs
                                  THEN userInputs.companyName ELSE "",
                  last        |-> Shown("init", "")]]

\* The states whose inputs the user fills in, and what is typed there.
FormAbbrs == {"AZ", "AR"}

TypedRecords == {ZeroSales, Sales(0, 250, 0, 0), Sales(100000, 200, 0, 0)}

\* The growth percentages tried in the scenario form of the page.
ScenarioGrowths == {Num(-150), Num(10)}

\* addSampleData's sampleStates: ten states with sales tax in the source, one
\* here; and the figures Math.random can give it.
sampleStates == <<"AR">>

SampleRecords ==
    {[directRevenue |-> Rat(320001, 8), directTransactions |-> Num(80),
      marketplaceRevenue |-> Num(10000), marketplaceTransactions |-> Num(20)],
     [directRevenue |-> Rat(960001, 8), directTransactions |-> Num(250),
      marketplaceRevenue |-> Num(30000), marketplaceTransactions |-> Num(50)]}

ExportFormats == {"csv", "excel", "pdf"}

\* The user types figures into the inputs of one state; the inputs of a state
\* without sales tax are disabled.
TypeFigures(abbr, salesData) ==
    /\ dom.loaded
    /\ stateData[abbr].hasSalesTax
    /\ dom.form[abbr] # salesData
    /\ dom' = [dom EXCEPT !.form[abbr] = salesData, !.last = Shown("input", "")]
    /\ UNCHANGED <<stateData, salesByState, call, app, localStorage>>

\* The submit listener of the input form: collectFormData, calculateAndRender,
\* saveToStorage, switchView('dashboard').
SubmitForm ==
    /\ dom.loaded
    /\ LET salesData == CollectSalesData(stateData, dom.form)
           userInputs == CollectUserInputs(dom.companyName)
       IN  /\ app' = [salesData   |-> salesData,
                      userInputs  |-> userInputs,
                      evaluations |-> evaluateAllStates(stateData, salesData)]
           /\ localStorage' = [key \in {SalesDataKey, UserInputsKey} |->
                                 IF key = SalesDataKey THEN JSONstringify(salesData)
                                 ELSE JSONstringify(userInputs)]
    /\ dom' = [dom EXCEPT !.last = Shown("submit", "")]
    /\ UNCHANGED <<stateData, salesByState, call>>

\* addSampleData: writes a record into this.salesData for every sample state
\* that has sales tax, fills the inputs, and tells the user to calculate.
AddSampleData(records) ==
    /\ dom.loaded
    /\ LET sampled == {sampleStates[i] : i \in 1..Len(sampleStates)}
           written == {abbr \in sampled : abbr \in DOMAIN stateData /\ stateData[abbr].hasSalesTax}
       IN  /\ app' = [app EXCEPT !.salesData =
                         [abbr \in DOMAIN app.salesData \cup written |->
                             IF abbr \in written THEN records[abbr] ELSE app.salesData[abbr]]]
           /\ dom' = [dom EXCEPT
                        !.form = [abbr \in DOMAIN dom.form |->
                                    IF abbr \in written
                                    THEN [directRevenue |-> ToFixed2(records[abbr].directRevenue),
                                          directTransactions |-> records[abbr].directTransactions,
                                          marketplaceRevenue |-> ToFixed2(records[abbr].marketplaceRevenue),
                                          marketplaceTransactions |-> records[abbr].marketplaceTransactions]
                                    ELSE dom.form[abbr]],
                        !.companyName = IF @ = "" THEN "Sample Company, Inc." ELSE @,
                        !.last = Shown("addSampleData", "Sample data added!")]
    /\ UNCHANGED <<stateData, salesByState, call, localStorage>>

\* clearAllData without the two localStorage.removeItem calls.
ClearAllDataKeepingStorage(confirmed) ==
    /\ dom.loaded
    /\ IF confirmed
       THEN /\ app' = [salesData   |-> <<>>,
                       userInputs  |-> <<>>,
                       evaluations |-> evaluateAllStates(stateData, <<>>)]
            /\ dom' = [dom EXCEPT !.form = renderStateInputs(stateData, <<>>),
                                  !.last = Shown("clearAllData", "All data cleared.")]
       ELSE dom' = [dom EXCEPT !.last = Shown("clearAllData", "")] /\ UNCHANGED app
    /\ UNCHANGED <<stateData, salesByState, call, localStorage>>

\* clearAllData: after confirm(), empties the fields, removes both storage
\* keys, renders the inputs and the dashboard anew.
ClearAllData(confirmed) ==
    /\ dom.loaded
    /\ IF confirmed
       THEN /\ app' = [salesData   |-> <<>>,
                       userInputs  |-> <<>>,
                       evaluations |-> evaluateAllStates(stateData, <<>>)]
            /\ localStorage' = <<>>
            /\ dom' = [dom EXCEPT !.form = renderStateInputs(stateData, <<>>),
                                  !.last = Shown("clearAllData", "All data cleared.")]
       ELSE /\ dom' = [dom EXCEPT !.last = Shown("clearAllData", "")]
            /\ UNCHANGED <<app, localStorage>>
    /\ UNCHANGED <<stateData, salesByState, call>>

\* runScenario: asks for sales data when there is none, else shows
\* modelScenario of this.salesData.
RunScenario(growthPercent) ==
    /\ dom.loaded
    /\ IF DOMAIN app.salesData = {}
       THEN dom' = [dom EXCEPT !.last =
                       Shown("runScenario", "Please enter sales data first before running scenarios.")]
       ELSE LET scenario == modelScenario(stateData, app.salesData, growthPercent) IN
            dom' = [dom EXCEPT !.last =
                       [op |-> "runScenario", alert |-> "", threw |-> "threw" \in DOMAIN scenario,
                        growthPercent |-> growthPercent]]
    /\ UNCHANGED <<stateData, salesByState, call, app, localStorage>>

\* exportCSV, exportExcel, exportPDF: the same guard, then the ExportHandler.
Export(format) ==
    /\ dom.loaded
    /\ IF Len(app.evaluations) = 0
       THEN dom' = [dom EXCEPT !.last =
                       [op |-> "export", alert |-> "No data to export. Please enter sales data first.",
                        threw |-> FALSE, exported |-> ""]]
       ELSE dom' = [dom EXCEPT !.last =
                       [op |-> "export", alert |-> "", threw |-> FALSE, exported |-> format]]
    /\ UNCHANGED <<stateData, salesByState, call, app, localStorage>>

\* The index of the first evaluation for a state, 0 when there is none:
\* this.evaluations.find(e => e.stateAbbr === stateAbbr).
FindEvaluation(evaluations, stateAbbr) ==
    LET hits == {i \in 1..Len(evaluations) :
                    "stateAbbr" \in DOMAIN evaluations[i] /\ evaluations[i].stateAbbr = stateAbbr}
    IN  IF hits = {} THEN 0 ELSE CHOOSE i \in hits : \A j \in hits : i <= j

\* showStateDetails(stateAbbr), the click listener of a map cell.  Without an
\* evaluation it returns; the modal body reads
\* evaluation.thresholdDetails.revenueThreshold, a TypeError when the result
\* has no thresholdDetails; else the modal is opened.
ShowStateDetails(stateAbbr) ==
    /\ dom.loaded
    /\ LET found == FindEvaluation(app.evaluations, stateAbbr) IN
       dom' = [dom EXCEPT !.last =
                  [op |-> "showStateDetails", alert |-> "", stateAbbr |-> stateAbbr,
                   found |-> found # 0,
                   threw |-> found # 0 /\ "thresholdDetails" \notin DOMAIN app.evaluations[found],
                   modal |-> found # 0 /\ "thresholdDetails" \in DOMAIN app.evaluations[found]]]
    /\ UNCHANGED <<stateData, salesByState, call, app, localStorage>>

\* The page is loaded again: a new NexusTrackerApp on what localStorage holds.
Reload ==
    /\ dom.loaded
    /\ app' = Constructed(stateData, localStorage).app
    /\ dom' = Constructed(stateData, localStorage).dom
    /\ UNCHANGED <<stateData, salesByState, call, localStorage>>

\* The page loaded for the first time, nothing stored.
InitApp ==
    /\ stateData = [abbr \in ShippedAbbrs |-> STATE_NEXUS_DATA[abbr]]
    /\ salesByState = <<>>
    /\ call = NoCall
    /\ localStorage = <<>>
    /\ app = Constructed(stateData, localStorage).app
    /\ dom = Constructed(stateData, localStorage).dom

NextApp ==
    \/ \E abbr \in FormAbbrs, salesData \in TypedRecords : TypeFigures(abbr, salesData)
    \/ SubmitForm
    \/ \E records \in [{sampleStates[i] : i \in 1..Len(sampleStates)} -> SampleRecords] :
          AddSampleData(records)
    \/ \E confirmed \in BOOLEAN : ClearAllData(confirmed)
    \/ \E growthPercent \in ScenarioGrowths : RunScenario(growthPercent)
    \/ \E format \in ExportFormats : Export(format)
    \/ \E stateAbbr \in DOMAIN stateData : ShowStateDetails(stateAbbr)
    \/ Reload

SpecApp == InitApp /\ [][NextApp]_vars

---------------------------------------------------------------------------
(* Properties *)

\* The last call was evaluateState on a state of the table.
EvaluatedKnown == call.op = "evaluateState" /\ call.stateAbbr \in DOMAIN stateData

\* ... on a state with sales tax / without sales tax.
EvaluatedTaxed == EvaluatedKnown /\ stateData[call.stateAbbr].hasSalesTax

EvaluatedUntaxed == EvaluatedKnown /\ ~stateData[call.stateAbbr].hasSalesTax

\* The number of results of a list that are for a given state.
ResultsFor(results, stateAbbr) ==
    Cardinality({i \in 1..Len(results) :
                   "stateAbbr" \in DOMAIN results[i] /\ results[i].stateAbbr = stateAbbr})

\* C1: evaluateAllStates returns exactly one result for every state of the
\* reference table, whatever the sales map holds: also for a state whose
\* record has transactions but no revenue, and for a state without a record.
C1_OneResultPerState ==
    call.op = "evaluateAllStates" =>
        \A stateAbbr \in DOMAIN stateData : ResultsFor(call.ret, stateAbbr) = 1

C3_MarketplaceExclusion ==
    EvaluatedTaxed =>
        LET state == stateData[call.stateAbbr]
            sales == call.salesData
            details == call.ret.thresholdDetails
        IN  /\ ~state.excludeMarketplaceSales =>
                 /\ details.applicableRevenue =
                        Add(sales.directRevenue, sales.marketplaceRevenue)
                 /\ details.applicableTransactions =
                        Add(sales.directTransactions, sales.marketplaceTransactions)
            /\ state.excludeMarketplaceSales =>
                 /\ details.applicableRevenue = sales.directRevenue
                 /\ details.applicableTransactions = sales.directTransactions
                 /\ \A other \in MarketplaceRevenues :
                      LET r == evaluateState(stateData, call.stateAbbr,
                                             [sales EXCEPT !.marketplaceRevenue = other])
                      IN  /\ r.thresholdDetails.applicableRevenue = details.applicableRevenue
                          /\ r.percentComplete = call.ret.percentComplete
                          /\ r.riskLevel = call.ret.riskLevel

\* Threshold 100000 excluding marketplace sales, direct 95000, marketplace
\* 500000: applicable revenue 95000, 95 %, NEXUS_IMMINENT, no nexus.
C3_Witness ==
    /\ EvaluatedTaxed
    /\ stateData[call.stateAbbr].excludeMarketplaceSales
    /\ stateData[call.stateAbbr].thresholdType = "REVENUE_ONLY"
    /\ call.salesData.directRevenue = Num(95000)
    /\ call.salesData.marketplaceRevenue = Num(500000)
    /\ call.ret.thresholdDetails.applicableRevenue = Num(95000)
    /\ call.ret.percentComplete = Num(95)
    /\ call.ret.riskLevel = "NEXUS_IMMINENT"
    /\ call.ret.hasNexus = JsFalse

\* value / threshold * 100, for a threshold that is a positive number.
PercentOf(value, threshold) == Mul(Div(value, threshold), Num(100))

\* The last call was evaluateState on a state with sales tax whose rule has the given type.
EvaluatedType(thresholdType) ==
    EvaluatedTaxed /\ stateData[call.stateAbbr].thresholdType = thresholdType

\* C4: for thresholdType EITHER, hasNexus is true iff revenue >= revenueThreshold
\* or transactions >= transactionThreshold; triggeredBy is both iff both hold,
\* revenue or transactions when exactly that one holds, null when neither
\* holds; percentComplete is the larger of the two percentages, clamped to 100.
C4_Either ==
    EvaluatedType("EITHER") =>
        LET state == stateData[call.stateAbbr]
            details == call.ret.thresholdDetails
            revenueMet == Geq(details.applicableRevenue, state.revenueThreshold)
            transactionsMet == Geq(details.applicableTransactions, state.transactionThreshold)
            larger == MathMax(PercentOf(details.applicableRevenue, state.revenueThreshold),
                              PercentOf(details.applicableTransactions,
                                        state.transactionThreshold))
        IN  /\ call.ret.hasNexus = JsBool(revenueMet \/ transactionsMet)
            /\ call.ret.triggeredBy =
                 (IF revenueMet /\ transactionsMet THEN JsStr("both")
                  ELSE IF revenueMet THEN JsStr("revenue")
                  ELSE IF transactionsMet THEN JsStr("transactions")
                  ELSE Null)
            /\ MathMax(call.ret.revenuePercent, call.ret.transactionPercent) = larger
            /\ call.ret.percentComplete = MathMin(larger, Num(100))

\* EITHER 100000 / 200 with 50000 and 250: nexus by transactions, 125 % clamped to 100.
C4_Witness ==
    /\ EvaluatedType("EITHER")
    /\ call.ret.thresholdDetails.applicableRevenue = Num(50000)
    /\ call.ret.thresholdDetails.applicableTransactions = Num(250)
    /\ call.ret.hasNexus = JsTrue
    /\ call.ret.triggeredBy = JsStr("transactions")
    /\ call.ret.transactionPercent = Num(125)
    /\ call.ret.percentComplete = Num(100)

\* C5: for thresholdType BOTH, hasNexus is true iff revenue >= revenueThreshold
\* and transactions >= transactionThreshold; triggeredBy is both when hasNexus
\* and null otherwise; percentComplete is the smaller of the two percentages
\* (clamped to 100).
C5_Both ==
    EvaluatedType("BOTH") =>
        LET state == stateData[call.stateAbbr]
            details == call.ret.thresholdDetails
            revenueMet == Geq(details.applicableRevenue, state.revenueThreshold)
            transactionsMet == Geq(details.applicableTransactions, state.transactionThreshold)
            smaller == MathMin(PercentOf(details.applicableRevenue, state.revenueThreshold),
                               PercentOf(details.applicableTransactions,
                                         state.transactionThreshold))
        IN  /\ call.ret.hasNexus = JsBool(revenueMet /\ transactionsMet)
            /\ call.ret.triggeredBy =
                 (IF revenueMet /\ transactionsMet THEN JsStr("both") ELSE Null)
            /\ MathMin(call.ret.revenuePercent, call.ret.transactionPercent) = smaller
            /\ call.ret.percentComplete = MathMin(smaller, Num(100))

\* BOTH with the revenue threshold crossed and the transactions at 75 %:
\* no nexus, and the percentage is that of the slower metric.
C5_Witness ==
    /\ EvaluatedType("BOTH")
    /\ call.ret.revenuePercent = Num(105)
    /\ call.ret.transactionPercent = Num(75)
    /\ call.ret.hasNexus = JsFalse
    /\ call.ret.triggeredBy = Null
    /\ call.ret.percentComplete = Num(75)

\* The threshold values tried in place of the one a single-threshold rule does not use.
OtherThresholds == {Null, Num(50), Num(200), Num(100000)}

\* C6: for REVENUE_ONLY, hasNexus is true iff applicable revenue >=
\* revenueThreshold (equality included), triggeredBy is revenue then and null
\* otherwise, percentComplete is the revenue percentage clamped to 100, and
\* neither the transaction count nor transactionThreshold changes hasNexus,
\* percentComplete or riskLevel; TRANSACTION_ONLY is the mirror image.
C6_SingleThreshold ==
    /\ EvaluatedType("REVENUE_ONLY") =>
        LET state == stateData[call.stateAbbr]
            details == call.ret.thresholdDetails
            met == Geq(details.applicableRevenue, state.revenueThreshold)
        IN  /\ call.ret.hasNexus = JsBool(met)
            /\ call.ret.triggeredBy = (IF met THEN JsStr("revenue") ELSE Null)
            /\ call.ret.percentComplete =
                 MathMin(PercentOf(details.applicableRevenue, state.revenueThreshold), Num(100))
            /\ \A count \in Transactions, threshold \in OtherThresholds :
                 LET r == evaluateThresholds([state EXCEPT !.transactionThreshold = threshold],
                                             details.applicableRevenue, count)
                 IN  /\ r.hasNexus = call.ret.hasNexus
                     /\ r.percentComplete = call.ret.percentComplete
                     /\ r.riskLevel = call.ret.riskLevel
    /\ EvaluatedType("TRANSACTION_ONLY") =>
        LET state == stateData[call.stateAbbr]
            details == call.ret.thresholdDetails
            met == Geq(details.applicableTransactions, state.transactionThreshold)
        IN  /\ call.ret.hasNexus = JsBool(met)
            /\ call.ret.triggeredBy = (IF met THEN JsStr("transactions") ELSE Null)
            /\ call.ret.percentComplete =
                 MathMin(PercentOf(details.applicableTransactions, state.transactionThreshold),
                         Num(100))
            /\ \A revenue \in Revenues, threshold \in OtherThresholds :
                 LET r == evaluateThresholds([state EXCEPT !.revenueThreshold = threshold],
                                             revenue, details.applicableTransactions)
                 IN  /\ r.hasNexus = call.ret.hasNexus
                     /\ r.percentComplete = call.ret.percentComplete
                     /\ r.riskLevel = call.ret.riskLevel

\* REVENUE_ONLY with revenue exactly at the threshold and transactions present:
\* nexus, NEXUS_ESTABLISHED, 100 %, triggered by revenue.
C6_Witness ==
    /\ EvaluatedType("REVENUE_ONLY")
    /\ call.ret.thresholdDetails.applicableRevenue = stateData[call.stateAbbr].revenueThreshold
    /\ call.ret.thresholdDetails.applicableTransactions = Num(250)
    /\ call.ret.hasNexus = JsTrue
    /\ call.ret.riskLevel = "NEXUS_ESTABLISHED"
    /\ call.ret.percentComplete = Num(100)
    /\ call.ret.triggeredBy = JsStr("revenue")

\* The percentage before the clamp, from the two percentages the result reports.
PreClampPercent(thresholdType, result) ==
    CASE thresholdType = "REVENUE_ONLY"     -> result.revenuePercent
      [] thresholdType = "TRANSACTION_ONLY" -> result.transactionPercent
      [] thresholdType = "EITHER" -> MathMax(result.revenuePercent, result.transactionPercent)
      [] thresholdType = "BOTH"   -> MathMin(result.revenuePercent, result.transactionPercent)
      [] OTHER -> Num(0)

\* C7: for a state with sales tax, riskLevel is NEXUS_ESTABLISHED when hasNexus,
\* otherwise NEXUS_IMMINENT from 90 % up, MONITORING from 70 % to below 90 %,
\* NO_NEXUS below 70 %, decided on the percentage before the clamp; the
\* reported percentComplete is that percentage clamped to 100.
C7_RiskBands ==
    EvaluatedTaxed =>
        LET percent == PreClampPercent(stateData[call.stateAbbr].thresholdType, call.ret)
        IN  /\ call.ret.riskLevel =
                 (IF call.ret.hasNexus = JsTrue THEN "NEXUS_ESTABLISHED"
                  ELSE IF Geq(percent, Num(90)) THEN "NEXUS_IMMINENT"
                  ELSE IF Geq(percent, Num(70)) THEN "MONITORING"
                  ELSE "NO_NEXUS")
            /\ call.ret.percentComplete = (IF Less(Num(100), percent) THEN Num(100) ELSE percent)

\* Exactly 90 % of the threshold without nexus: NEXUS_IMMINENT.
C7_Witness ==
    /\ EvaluatedTaxed
    /\ call.ret.hasNexus = JsFalse
    /\ call.ret.percentComplete = Num(90)
    /\ call.ret.riskLevel = "NEXUS_IMMINENT"

\* The elements of a list.
Range(seq) == {seq[i] : i \in 1..Len(seq)}

\* The evaluation results the last call handed back: the result of
\* evaluateState (an error outcome is none), the list of evaluateAllStates,
\* the current and the projected list of modelScenario.
ReturnedResults ==
    CASE call.op = "evaluateState" ->
           IF "error" \in DOMAIN call.ret THEN {} ELSE {call.ret}
      [] call.op = "evaluateAllStates" -> Range(call.ret)
      [] call.op = "modelScenario" ->
           IF "threw" \in DOMAIN call.ret THEN {}
           ELSE Range(call.ret.current.evaluations) \cup Range(call.ret.projected.evaluations)
      [] OTHER -> {}

\* A result carries a percentComplete that is a number in [0, 100].
PercentInRange(result) ==
    /\ "percentComplete" \in DOMAIN result
    /\ IsNum(result.percentComplete)
    /\ Geq(result.percentComplete, Num(0))
    /\ Geq(Num(100), result.percentComplete)

\* C8 as stated: every result returned by evaluateState, by evaluateAllStates
\* and in the current and projected lists of modelScenario carries a numeric
\* percentComplete in [0, 100].
C8_EveryResultHasPercent ==
    \A result \in ReturnedResults : PercentInRange(result)

\* C8 as the code has it: every such result for a state with sales tax carries
\* a numeric percentComplete in [0, 100]; the result for a state without sales
\* tax carries no percentComplete at all.
C8_PercentWhereTaxed ==
    \A result \in ReturnedResults :
        IF stateData[result.stateAbbr].hasSalesTax
        THEN PercentInRange(result)
        ELSE "percentComplete" \notin DOMAIN result

\* A scenario whose projected list holds a result past its threshold (more
\* than 100 % before the clamp, 100 reported) next to a state without sales tax.
C8_Witness ==
    /\ call.op = "modelScenario"
    /\ "threw" \notin DOMAIN call.ret
    /\ \E result \in Range(call.ret.projected.evaluations) :
         /\ stateData[result.stateAbbr].hasSalesTax
         /\ Less(Num(100), MathMax(result.revenuePercent, result.transactionPercent))
         /\ result.percentComplete = Num(100)
    /\ \E result \in Range(call.ret.projected.evaluations) :
         ~stateData[result.stateAbbr].hasSalesTax

\* The severity rank of a result: established, imminent, monitoring, no nexus,
\* and last the states without sales tax.
SeverityRank(result) ==
    CASE result.riskLevel = "NEXUS_ESTABLISHED" -> 1
      [] result.riskLevel = "NEXUS_IMMINENT"    -> 2
      [] result.riskLevel = "MONITORING"        -> 3
      [] result.riskLevel = "NO_NEXUS"          -> 4
      [] OTHER                                  -> 5

\* A list is ordered by severity rank, and by state name within a rank.
SortedBySeverityThenName(results) ==
    \A i, j \in 1..Len(results) :
        i < j =>
            \/ SeverityRank(results[i]) < SeverityRank(results[j])
            \/ /\ SeverityRank(results[i]) = SeverityRank(results[j])
               /\ LocaleCompare(results[i].stateName, results[j].stateName) <= 0

\* C9: the list evaluateAllStates returns is sorted by severity rank
\* (established < imminent < monitoring < no nexus < no sales tax) and, within
\* a rank, by state name ascending; the states without sales tax come last.
C9_SortedResults ==
    call.op = "evaluateAllStates" =>
        /\ SortedBySeverityThenName(call.ret)
        /\ \A i, j \in 1..Len(call.ret) :
             (i < j /\ ~stateData[call.ret[i].stateAbbr].hasSalesTax)
                 => ~stateData[call.ret[j].stateAbbr].hasSalesTax

\* A list in which the sort moved a state of the sales map behind a state
\* without a record that has the same risk level and an earlier name.
C9_Witness ==
    /\ call.op = "evaluateAllStates"
    /\ \E i, j \in 1..Len(call.ret) :
         /\ i < j
         /\ call.ret[j].stateAbbr \in DOMAIN salesByState
         /\ call.ret[i].stateAbbr \notin DOMAIN salesByState
         /\ call.ret[i].riskLevel = call.ret[j].riskLevel
         /\ call.ret[i].riskLevel = "NO_NEXUS"

\* The positions of a list whose result has one of the given risk levels.
PositionsAt(evaluations, riskLevels) ==
    {i \in 1..Len(evaluations) :
        "riskLevel" \in DOMAIN evaluations[i] /\ evaluations[i].riskLevel \in riskLevels}

\* The state abbreviations of the results with one of the given risk levels, in list order.
RECURSIVE AbbrsAt(_, _)
AbbrsAt(evaluations, riskLevels) ==
    IF evaluations = <<>> THEN <<>>
    ELSE (IF Head(evaluations).riskLevel \in riskLevels
          THEN <<Head(evaluations).stateAbbr>> ELSE <<>>)
         \o AbbrsAt(Tail(evaluations), riskLevels)

\* C10: getSummary returns one count per risk tier, the number of results of
\* the list in that tier (the no-sales-tax tier being the results of states
\* without sales tax), and statesRequiringAction holds exactly the
\* abbreviations of the NEXUS_ESTABLISHED and NEXUS_IMMINENT results in list
\* order, so its length is nexusEstablished + nexusImminent.
C10_Summary ==
    call.op = "getSummary" =>
        LET evaluations == call.evaluations
            summary == call.ret
        IN  /\ summary.nexusEstablished =
                 Cardinality(PositionsAt(evaluations, {"NEXUS_ESTABLISHED"}))
            /\ summary.nexusImminent =
                 Cardinality(PositionsAt(evaluations, {"NEXUS_IMMINENT"}))
            /\ summary.monitoring = Cardinality(PositionsAt(evaluations, {"MONITORING"}))
            /\ summary.noNexus = Cardinality(PositionsAt(evaluations, {"NO_NEXUS"}))
            /\ summary.noSalesTax =
                 Cardinality({i \in 1..Len(evaluations) :
                                ~stateData[evaluations[i].stateAbbr].hasSalesTax})
            /\ summary.statesRequiringAction =
                 AbbrsAt(evaluations, {"NEXUS_ESTABLISHED", "NEXUS_IMMINENT"})
            /\ Len(summary.statesRequiringAction) =
                 summary.nexusEstablished + summary.nexusImminent

\* A summary of part of a list, not in sorted order, that holds an imminent
\* result ahead of an established one and a state without sales tax.
C10_Witness ==
    /\ call.op = "getSummary"
    /\ call.ret.noSalesTax >= 1
    /\ call.ret.totalStates < Cardinality(DOMAIN stateData)
    /\ \E i, j \in 1..Len(call.evaluations) :
         /\ i < j
         /\ call.evaluations[i].riskLevel = "NEXUS_IMMINENT"
         /\ call.evaluations[j].riskLevel = "NEXUS_ESTABLISHED"
         /\ call.ret.statesRequiringAction =
              <<call.evaluations[i].stateAbbr, call.evaluations[j].stateAbbr>>

\* The call was modelScenario and it returned.
ScenarioReturned == call.op = "modelScenario" /\ "threw" \notin DOMAIN call.ret

\* The states whose result in a list has the given hasNexus.
StatesWithNexus(evaluations, hasNexus) ==
    {evaluations[i].stateAbbr : i \in {j \in 1..Len(evaluations) : evaluations[j].hasNexus = hasNexus}}

\* C11: newNexusStates of modelScenario holds exactly the states whose current
\* result has hasNexus false and whose projected result has hasNexus true,
\* each at most once; a state that has nexus in current never appears.
C11_NewNexusStates ==
    ScenarioReturned =>
        LET current == call.ret.current.evaluations
            projected == call.ret.projected.evaluations
            newNexusStates == call.ret.newNexusStates
        IN  /\ Range(newNexusStates) =
                 StatesWithNexus(current, JsFalse) \cap StatesWithNexus(projected, JsTrue)
            /\ Cardinality(Range(newNexusStates)) = Len(newNexusStates)
            /\ Range(newNexusStates) \cap StatesWithNexus(current, JsTrue) = {}

\* Arizona at 95 % of its revenue-only threshold grows by 10 % and is the one
\* new nexus state, next to a state that has nexus already and keeps it.
C11_Witness ==
    /\ ScenarioReturned
    /\ call.increasePercent = Num(10)
    /\ "AZ" \in DOMAIN salesByState
    /\ salesByState["AZ"].directRevenue = Num(95000)
    /\ call.ret.newNexusStates = <<"AZ">>
    /\ StatesWithNexus(call.ret.current.evaluations, JsTrue) # {}

\* A figure times (1 + growth / 100), as one fraction.
ScaledBy(figure, growth) ==
    Rat(figure[1] * (100 * growth[2] + growth[1]), figure[2] * 100 * growth[2])

\* n is an integer and no integer is nearer to the number q.
IsNearestInteger(n, q) ==
    /\ n[2] = 1
    /\ 2 * Abs(n[1] * q[2] - q[1]) <= q[2]

\* C12: in modelScenario the projected list is evaluateAllStates of a copy of
\* the sales map in which every figure of every state is multiplied by
\* (1 + growth / 100), the two transaction counts then rounded to the nearest
\* integer and the two revenue figures not rounded; the current list is
\* evaluateAllStates of the unscaled map.
C12_ProjectedSales ==
    ScenarioReturned =>
        LET growth == call.increasePercent
            projectedSales == call.projectedSales
        IN  /\ call.ret.current.evaluations = evaluateAllStates(stateData, salesByState)
            /\ DOMAIN projectedSales = DOMAIN salesByState
            /\ \A state \in DOMAIN salesByState :
                 LET sales == salesByState[state]
                     scaled == projectedSales[state]
                 IN  /\ scaled.directRevenue = ScaledBy(sales.directRevenue, growth)
                     /\ scaled.marketplaceRevenue = ScaledBy(sales.marketplaceRevenue, growth)
                     /\ IsNearestInteger(scaled.directTransactions,
                                         ScaledBy(sales.directTransactions, growth))
                     /\ IsNearestInteger(scaled.marketplaceTransactions,
                                         ScaledBy(sales.marketplaceTransactions, growth))
            /\ call.ret.projected.evaluations = evaluateAllStates(stateData, projectedSales)

\* A scenario whose growth leaves a revenue with a fractional part, which the
\* projected result shows unrounded, and a transaction count that was rounded.
C12_Witness ==
    /\ ScenarioReturned
    /\ \E state \in DOMAIN salesByState :
         /\ call.projectedSales[state].directRevenue[2] # 1
         /\ ScaledBy(salesByState[state].directTransactions, call.increasePercent)[2] # 1
         /\ \E i \in 1..Len(call.ret.projected.evaluations) :
              LET result == call.ret.projected.evaluations[i] IN
              /\ result.stateAbbr = state
              /\ "thresholdDetails" \in DOMAIN result
              /\ result.thresholdDetails.applicableRevenue[2] # 1
              /\ result.thresholdDetails.applicableTransactions[2] = 1

\* C13: for every growth percentage, those of -100 and below included, none of
\* the scaled figures modelScenario hands on to be evaluated is negative.
C13_NoNegativeScaledFigure ==
    call.op = "modelScenario" =>
        \A state \in DOMAIN call.projectedSales :
            LET scaled == call.projectedSales[state] IN
            /\ Geq(scaled.directRevenue, Num(0))
            /\ Geq(scaled.directTransactions, Num(0))
            /\ Geq(scaled.marketplaceRevenue, Num(0))
            /\ Geq(scaled.marketplaceTransactions, Num(0))

\* The last call was evaluateState on a state abbreviation the table lacks.
EvaluatedUnknown == call.op = "evaluateState" /\ call.stateAbbr \notin DOMAIN stateData

\* C14: evaluateState on a state abbreviation that is absent from the table
\* reports the unknown state to its caller: the result is an error outcome
\* (an error naming the state, status UNKNOWN) and carries no hasNexus,
\* riskLevel or percentComplete.
C14_UnknownState ==
    EvaluatedUnknown =>
        /\ "error" \in DOMAIN call.ret
        /\ call.ret.error = <<"State", call.stateAbbr, "not found">>
        /\ call.ret.status = "UNKNOWN"
        /\ DOMAIN call.ret \cap {"hasNexus", "riskLevel", "percentComplete"} = {}

\* An unknown state evaluated on sales that cross the usual thresholds.
C14_Witness ==
    /\ EvaluatedUnknown
    /\ call.salesData.directRevenue = Num(100000)
    /\ call.salesData.directTransactions = Num(200)
    /\ "error" \in DOMAIN call.ret

\* C15: evaluateAllStates never produces the outcome of an unknown state: for
\* a sales map with a key that is not in the table (and positive revenue) the
\* list still holds only results for states of the table.
C15_OnlyKnownStates ==
    call.op = "evaluateAllStates" =>
        \A i \in 1..Len(call.ret) :
            /\ "error" \notin DOMAIN call.ret[i]
            /\ "stateAbbr" \in DOMAIN call.ret[i]
            /\ call.ret[i].stateAbbr \in DOMAIN stateData

\* The types that read the revenue threshold / the transaction threshold.
UsesRevenue(thresholdType) == thresholdType \in {"REVENUE_ONLY", "EITHER", "BOTH"}

UsesTransactions(thresholdType) == thresholdType \in {"TRANSACTION_ONLY", "EITHER", "BOTH"}

\* C16: a threshold of exactly 0 is a present threshold that any non-negative
\* figure has met: a type that needs one threshold has nexus as soon as that
\* threshold is 0, BOTH as soon as both are 0; and the percentage is a number.
C16_ZeroThresholdIsMet ==
    EvaluatedTaxed =>
        LET state == stateData[call.stateAbbr]
            revenueZero == state.revenueThreshold = Num(0)
            transactionZero == state.transactionThreshold = Num(0)
        IN  /\ (state.thresholdType \in {"REVENUE_ONLY", "EITHER"} /\ revenueZero)
                   => Truthy(call.ret.hasNexus)
            /\ (state.thresholdType \in {"TRANSACTION_ONLY", "EITHER"} /\ transactionZero)
                   => Truthy(call.ret.hasNexus)
            /\ (state.thresholdType = "BOTH" /\ revenueZero /\ transactionZero)
                   => Truthy(call.ret.hasNexus)
            /\ IsNum(call.ret.percentComplete)

\* C19: hasNexus of every evaluation result is a boolean, exactly true or
\* false, also for a rule whose revenue or transaction threshold is null or 0.
C19_HasNexusIsBoolean ==
    EvaluatedKnown => IsBool(call.ret.hasNexus)

\* C20: for a rule with sales tax whose thresholdType is NONE or not one the
\* engine knows, the evaluation returns percentComplete 0, hasNexus false,
\* triggeredBy null and riskLevel NO_NEXUS, whatever the sales are.
C20_UnrecognizedType ==
    (EvaluatedTaxed /\ ~UsesRevenue(stateData[call.stateAbbr].thresholdType)
                    /\ ~UsesTransactions(stateData[call.stateAbbr].thresholdType)) =>
        /\ call.ret.percentComplete = Num(0)
        /\ call.ret.hasNexus = JsFalse
        /\ call.ret.triggeredBy = Null
        /\ call.ret.riskLevel = "NO_NEXUS"

\* A rule of an unknown type with both thresholds set, evaluated on sales
\* that reach both.
C20_Witness ==
    /\ EvaluatedTaxed
    /\ stateData[call.stateAbbr].thresholdType = "QUARTERLY"
    /\ stateData[call.stateAbbr].revenueThreshold = Num(100000)
    /\ stateData[call.stateAbbr].transactionThreshold = Num(200)
    /\ call.salesData = Sales(100000, 200, 0, 0)
    /\ call.ret.revenuePercent = Num(100)
    /\ call.ret.riskLevel = "NO_NEXUS"

Severity(riskLevel) ==
    CASE riskLevel = "NEXUS_ESTABLISHED" -> 4
      [] riskLevel = "NEXUS_IMMINENT"    -> 3
      [] riskLevel = "MONITORING"        -> 2
      [] riskLevel = "NO_NEXUS"          -> 1
      [] OTHER                           -> 0

\* A result's percentComplete is not below another's; a result without one
\* (a state without sales tax) has nothing that could decrease.
PercentNotBelow(larger, smaller) ==
    IF "percentComplete" \in DOMAIN smaller
    THEN "percentComplete" \in DOMAIN larger
         /\ Geq(larger.percentComplete, smaller.percentComplete)
    ELSE "percentComplete" \notin DOMAIN larger

\* C18: evaluateState is monotone in directRevenue.  For every rule of the
\* table and every two sales records that differ only in directRevenue, the
\* record with the larger directRevenue has a percentComplete at least as
\* large and a riskLevel at least as severe.
C18_MonotoneInRevenue ==
    EvaluatedKnown =>
        \A directRevenue \in Revenues :
            Geq(directRevenue, call.salesData.directRevenue) =>
                LET larger == evaluateState(stateData, call.stateAbbr,
                                  [call.salesData EXCEPT !.directRevenue = directRevenue])
                IN  /\ PercentNotBelow(larger, call.ret)
                    /\ Severity(larger.riskLevel) >= Severity(call.ret.riskLevel)

\* A state being monitored at 70 % of its revenue threshold: more revenue
\* takes it through imminent (90 %) to an established nexus.
C18_Witness ==
    /\ EvaluatedTaxed
    /\ call.salesData.directRevenue = Num(70000)
    /\ call.ret.riskLevel = "MONITORING"
    /\ evaluateState(stateData, call.stateAbbr,
           [call.salesData EXCEPT !.directRevenue = Num(90000)]).riskLevel = "NEXUS_IMMINENT"
    /\ evaluateState(stateData, call.stateAbbr,
           [call.salesData EXCEPT !.directRevenue = Num(100000)]).riskLevel = "NEXUS_ESTABLISHED"

\* A rule whose thresholdType the engine does not know, or whose declared type
\* reads a threshold that is null.
InvalidRule(state) ==
    \/ ~UsesRevenue(state.thresholdType) /\ ~UsesTransactions(state.thresholdType)
    \/ UsesRevenue(state.thresholdType) /\ state.revenueThreshold = Null
    \/ UsesTransactions(state.thresholdType) /\ state.transactionThreshold = Null

\* The properties every result for a state with sales tax has.
OrdinaryResultKeys ==
    {"stateAbbr", "stateName", "hasNexus", "riskLevel", "percentComplete", "triggeredBy",
     "revenuePercent", "transactionPercent", "thresholdDetails"}

\* C21: the result for a rule with an unrecognized thresholdType, or with
\* thresholds that contradict the declared type, flags the anomaly to the
\* caller: it carries something an ordinary NO_NEXUS result does not.
C21_AnomalyFlagged ==
    (EvaluatedTaxed /\ InvalidRule(stateData[call.stateAbbr])) =>
        \/ DOMAIN call.ret \ OrdinaryResultKeys # {}
        \/ call.ret.riskLevel \notin {"NEXUS_ESTABLISHED", "NEXUS_IMMINENT",
                                      "MONITORING", "NO_NEXUS"}

\* C22: while no sales data has been entered (salesData is empty, as after
\* init on an empty storage or after clearAllData), exportCSV, exportExcel and
\* exportPDF refuse: they show 'No data to export' and call no export handler.
C22_NoExportWithoutData ==
    (dom.loaded /\ dom.last.op = "export" /\ DOMAIN app.salesData = {}) =>
        /\ dom.last.alert = "No data to export. Please enter sales data first."
        /\ dom.last.exported = ""

\* C23: clearAllData, when the user confirms, leaves salesData and userInputs
\* empty and localStorage without its two keys, so that loading the page again
\* restores no sales data; when the user declines, salesData, userInputs,
\* evaluations and localStorage are as they were.
C23_ClearAllData ==
    [][(dom'.loaded /\ dom'.last.op = "clearAllData") =>
          IF dom'.last.alert = "All data cleared."
          THEN /\ DOMAIN app'.salesData = {}
               /\ DOMAIN app'.userInputs = {}
               /\ DOMAIN localStorage' \cap {SalesDataKey, UserInputsKey} = {}
               /\ DOMAIN Constructed(stateData', localStorage').app.salesData = {}
          ELSE /\ app' = app
               /\ localStorage' = localStorage]_vars

\* The user confirmed clearAllData on a page on which sample data had been
\* added (the company name it filled in is still in its input).
C23_Witness ==
    /\ dom.loaded
    /\ dom.last.op = "clearAllData"
    /\ dom.last.alert = "All data cleared."
    /\ dom.companyName = "Sample Company, Inc."
    /\ DOMAIN app.salesData = {}
    /\ DOMAIN localStorage = {}

\* C24: after every operation of the app the evaluations on display are
\* evaluateAllStates of the current salesData, the data runScenario would use.
C24_DashboardNotStale ==
    dom.loaded => app.evaluations = evaluateAllStates(stateData, app.salesData)

\* C25: showStateDetails never fails: for every state that has an evaluation,
\* a state without sales tax included, it opens the modal, and for a state
\* without an evaluation it returns without effect.
C25_ShowStateDetails ==
    (dom.loaded /\ dom.last.op = "showStateDetails") =>
        /\ ~dom.last.threw
        /\ dom.last.modal = dom.last.found

\* C26: in every result for a state with sales tax the three signs of nexus
\* agree, for each threshold type: hasNexus is true exactly when riskLevel is
\* NEXUS_ESTABLISHED, and exactly when triggeredBy is not null.
C26_NexusSignsAgree ==
    EvaluatedTaxed =>
        /\ (call.ret.hasNexus = JsTrue) <=> (call.ret.riskLevel = "NEXUS_ESTABLISHED")
        /\ (call.ret.hasNexus = JsTrue) <=> (call.ret.triggeredBy # Null)

\* A state of type BOTH whose revenue threshold is met and whose transaction
\* threshold is not: no nexus, no trigger, not NEXUS_ESTABLISHED.
C26_Witness ==
    /\ EvaluatedTaxed
    /\ stateData[call.stateAbbr].thresholdType = "BOTH"
    /\ Geq(call.ret.thresholdDetails.applicableRevenue, stateData[call.stateAbbr].revenueThreshold)
    /\ Less(call.ret.thresholdDetails.applicableTransactions, stateData[call.stateAbbr].transactionThreshold)
    /\ call.ret.hasNexus = JsFalse
    /\ call.ret.triggeredBy = Null

\* The states a list of results is about.
StatesOf(evaluations) == {evaluations[i].stateAbbr : i \in 1..Len(evaluations)}

\* C27: for every sales map and every growth, a growth of -100 % or below
\* included, the current and the projected list of modelScenario hold results
\* for the same states, and the two summaries have equal totalStates.
C27_SameStatesProjected ==
    ScenarioReturned =>
        /\ StatesOf(call.ret.current.evaluations) = StatesOf(call.ret.projected.evaluations)
        /\ call.ret.current.summary.totalStates = call.ret.projected.summary.totalStates

\* C28: for a growth of 0 or more, modelScenario loses no nexus: every state
\* whose current result has hasNexus true has hasNexus true in its projected
\* result, the transaction counts having been scaled and rounded.
C28_GrowthKeepsNexus ==
    (ScenarioReturned /\ Geq(call.increasePercent, Num(0))) =>
        StatesWithNexus(call.ret.current.evaluations, JsTrue)
            \subseteq StatesWithNexus(call.ret.projected.evaluations, JsTrue)

\* A growth of 10 % on a map with a state that has nexus, which keeps it, and
\* with a transaction count that the scaling leaves fractional and that was
\* rounded.
C28_Witness ==
    /\ ScenarioReturned
    /\ call.increasePercent = Num(10)
    /\ StatesWithNexus(call.ret.current.evaluations, JsTrue) # {}
    /\ \E state \in DOMAIN salesByState :
         ScaledBy(salesByState[state].directTransactions, call.increasePercent)[2] # 1

\* C29: for a growth of 0 or less, modelScenario reports no new nexus state,
\* and for a growth of 0 the projected list equals the current list.
C29_ShrinkageAddsNoNexus ==
    (ScenarioReturned /\ Geq(Num(0), call.increasePercent)) =>
        /\ call.ret.newNexusStates = <<>>
        /\ call.increasePercent = Num(0) =>
             call.ret.projected.evaluations = call.ret.current.evaluations

\* A growth of -50 % on a map with a state that has nexus and loses it, and
\* with a state whose halved transaction count ends in .5 and was rounded.
C29_Witness ==
    /\ ScenarioReturned
    /\ call.increasePercent = Num(-50)
    /\ StatesWithNexus(call.ret.current.evaluations, JsTrue)
         \cap StatesWithNexus(call.ret.projected.evaluations, JsFalse) # {}
    /\ \E state \in DOMAIN salesByState :
         ScaledBy(salesByState[state].directTransactions, call.increasePercent)[2] = 2
    /\ call.ret.newNexusStates = <<>>

\* C30: getSummary partitions the list evaluateAllStates returned, for any
\* sales map: the five tier counts add up to totalStates, and the states
\* without a record in the map are counted, under noNexus or noSalesTax.
C30_SummaryPartitions ==
    (call.op = "getSummary"
        /\ call.evaluations \in SortOutcomes(PushedResults(stateData, salesByState))) =>
        /\ call.ret.nexusEstablished + call.ret.nexusImminent + call.ret.monitoring
             + call.ret.noNexus + call.ret.noSalesTax = call.ret.totalStates
        /\ call.ret.noNexus + call.ret.noSalesTax
             >= Cardinality(DOMAIN stateData \ DOMAIN salesByState)

=============================================================================
